---- MODULE Spec2Model ----
(***************************************************************************)
(* State-machine model of the gesture session of the interactive tree:     *)
(* the GestureController component (components/Polaroids.tsx, second       *)
(* half) together with the part of App (README.md, App.tsx listing) that   *)
(* owns the mode and the published hand position.                          *)
(*                                                                         *)
(* Landmark coordinates are integers in units of 1/16 of the normalized    *)
(* image width/height.  A hand position (published or smoothed) is kept in *)
(* millionths, so that the midpoint (a + b) / 2 of two landmark            *)
(* coordinates is exact: (a + b) / 32 = 31250 * (a + b) millionths.        *)
(*                                                                         *)
(* The camera rig of the Experience component (components/Experience.tsx)  *)
(* is kept as its two orbit angles, in thousandths of a degree, with time  *)
(* in milliseconds; products of the frame callback are rounded to the      *)
(* nearest unit where the program rounds to the nearest double.            *)
(***************************************************************************)
EXTENDS Integers, Sequences, FiniteSets, TLC

VARIABLES
    \* ---- App state (README.md, App.tsx listing) ----
    mode,            \* committed React state `mode`
    pendingMode,     \* `mode` with the queued setMode updates applied
    handPosition,    \* last value handed to setHandPosition
    \* ---- GestureController refs and state ----
    lastModeRef,
    openFrames,
    closedFrames,
    noHandFrames,
    gestureStatus,
    \* ---- GestureController effect closure and environment ----
    handLandmarker,  \* "null" | "open" | "closed"
    animationFrame,  \* "idle" | "scheduled": a requestAnimationFrame callback is pending
    setupPc,         \* position of the asynchronous setup chain
    streamLive,      \* the camera MediaStream has live tracks
    listener,        \* predictWebcam is registered for the video's loadeddata
    loadedFired,     \* the loadeddata event has been delivered
    videoRef,        \* videoRef.current is attached (non-null)
    tornDown,        \* the effect cleanup has run
    \* ---- observers (history, not program state) ----
    runKind,         \* classification of the last processed frame
    runLen,          \* length of the current run of frames of kind runKind
    runStartMode,    \* lastModeRef when the current run began
    runStartZero,    \* openFrames = closedFrames = 0 when the current run began
    runEmits,        \* onModeChange calls during the current run (saturating)
    runEmitAt,       \* index in the run of its first onModeChange call, 0 if none
    lastEmit,        \* argument of the last onModeChange call, "none" if none
    emitTick,        \* flips on every onModeChange call
    osc,             \* -1, or the number of OPEN runs ended by an AMBIGUOUS frame while
                     \* all frames were OPEN or AMBIGUOUS and no OPEN run exceeded 5
    toggled,         \* toggleMode has been called
    thrown,          \* an exception escaped predictWebcam
    lastResult,      \* the detection result of the last processed frame
    \* ---- Experience refs and camera rig ----
    controlsRef,     \* controlsRef.current is attached (non-null)
    smoothHandRef,   \* smoothHandRef.current, [x, y] in millionths
    azimuth,         \* controls.getAzimuthalAngle()
    polar,           \* controls.getPolarAngle()
    spinSpeedRef,    \* spinSpeedRef.current, thousandths of a degree per second
    rotationY,       \* sceneGroupRef.current.rotation.y
    \* ---- observers of the frame callback (history, not program state) ----
    ticks,           \* number of useFrame callbacks run
    branches,        \* the camera branches the last callback ran: "hand", "auto"
    azimuthDiff,     \* azimuthDiff as applied by the last hand-driven callback
    heldTicks,       \* consecutive hand-driven callbacks since handPosition changed
    heldFrom,        \* smoothHandRef.current when those callbacks began
    \* ---- the cards hung on the tree (PolaroidItem, TextCardItem, AudioCardItem) ----
    cards,           \* kind -> [position, scale, speed] of the mounted card
    \* ---- observers of the cards (history, not program state) ----
    shadowCards,     \* the same cards, driven with the hand position at rest
    cardTicks,       \* number of frames the cards were driven through
    \* ---- the manifest script and the folders it works on ----
    photosDir,       \* names in the top-level photos folder
    publicDir,       \* names in public/photos
    manifestFile,    \* the photos array of public/photos/manifest.json, "absent" if none
    \* ---- observers of the manifest script (history, not program state) ----
    copyFailed,      \* the files whose copy failed in the last run
    runTick,         \* flips on every run of the script
    \* ---- App photo list, the uploads in flight and the manifest fetch ----
    uploadedPhotos,  \* React state `uploadedPhotos` with the queued updaters applied
    batches,         \* the handleFileChange calls so far: files, reads, delivered
    fetchPc,         \* "pending" | "settled": the fetch of /photos/manifest.json
    \* ---- observers of the manifest fetch (history, not program state) ----
    fetched,         \* the response the fetch settled with, "none" before
    \* ---- UIOverlay voice recorder ----
    isRecording,     \* React state `isRecording` with the queued updates applied
    mediaRecorderRef,\* mediaRecorderRef.current: 0 for null, else an index of recorders
    recorders,       \* the MediaRecorders created so far: state, onstop pending,
                     \* tracks of its stream live
    audioChunksRef,  \* audioChunksRef.current: the recorder each chunk came from
    pendingMedia,    \* getUserMedia calls still awaited
    uploadedAudios   \* App state `uploadedAudios`: per card its recorder and blob

appVars == <<mode, pendingMode, handPosition>>
refVars == <<lastModeRef, openFrames, closedFrames, noHandFrames, gestureStatus>>
envVars == <<handLandmarker, animationFrame, setupPc, streamLive, listener,
             loadedFired, videoRef, tornDown>>
obsVars == <<runKind, runLen, runStartMode, runStartZero, runEmits, runEmitAt,
             lastEmit, emitTick, osc, toggled, thrown, lastResult>>
orbitVars == <<controlsRef, smoothHandRef, azimuth, polar, spinSpeedRef, rotationY>>
orbitObsVars == <<ticks, branches, azimuthDiff, heldTicks, heldFrom>>
cardVars == <<cards, shadowCards, cardTicks>>
manifestVars == <<photosDir, publicDir, manifestFile, copyFailed, runTick>>
uploadVars == <<uploadedPhotos, batches, fetchPc, fetched>>
recorderVars == <<isRecording, mediaRecorderRef, recorders, audioChunksRef,
                  pendingMedia, uploadedAudios>>
uiVars == <<uploadVars, recorderVars>>
restVars == <<cardVars, manifestVars, uiVars>>
vars == <<appVars, refVars, envVars, obsVars, orbitVars, orbitObsVars, restVars>>

----------------------------------------------------------------------------
(* Bounds of the exploration *)

\* openFrames / closedFrames / an AMBIGUOUS run are not driven beyond this
MaxFrames == 8
\* noHandFrames is not driven beyond NO_HAND_THRESHOLD + MaxNoHandOver
MaxNoHandOver == 2
\* saturation of the per-run emission counter and of the oscillation counter
MaxCount == 2
\* useFrame callbacks explored from each starting pose
MaxTicks == 2
\* useFrame callbacks explored while one hand position is held
MaxHoldTicks == 52
\* frames the cards are driven through
MaxCardTicks == 4

----------------------------------------------------------------------------
(* Program constants *)

CONFIDENCE_THRESHOLD == 5
NO_HAND_THRESHOLD == 60
\* OPEN_RATIO = 1.5 and CLOSED_RATIO = 1.1, in tenths
OPEN_RATIO_TENTHS == 15
CLOSED_RATIO_TENTHS == 11

FORMED == "FORMED"
CHAOS == "CHAOS"
TreeMode == {FORMED, CHAOS}

Max(a, b) == IF a >= b THEN a ELSE b
Min(a, b) == IF a <= b THEN a ELSE b

----------------------------------------------------------------------------
(* Landmark inputs.  A hand is a function from landmark indices to points; *)
(* a full hand has the 21 indices 0..20, a partial one lacks some.         *)

Hand(p2, p4, p5, p8) ==
    [i \in 0..20 |-> CASE i = 2 -> p2
                       [] i = 4 -> p4
                       [] i = 5 -> p5
                       [] i = 8 -> p8
                       [] OTHER -> <<8, 8>>]

Without(l, missing) == [i \in (DOMAIN l) \ missing |-> l[i]]

HandOpen       == Hand(<<6, 8>>, <<4, 4>>, <<8, 8>>, <<12, 4>>)   \* ratio 4
HandOpenEdge   == Hand(<<6, 8>>, <<6, 10>>, <<8, 8>>, <<9, 10>>)  \* ratio 1.5
HandZeroBase   == Hand(<<8, 8>>, <<4, 4>>, <<8, 8>>, <<12, 4>>)   \* bases coincide
HandClosed     == Hand(<<6, 8>>, <<7, 6>>, <<8, 8>>, <<8, 6>>)    \* ratio 0.5
HandClosedEdge == Hand(<<2, 8>>, <<2, 4>>, <<12, 8>>, <<13, 4>>)  \* ratio 1.1
HandAmbiguous  == Hand(<<6, 8>>, <<5, 5>>, <<10, 8>>, <<10, 5>>)  \* ratio 1.25

FullHands == {HandOpen, HandOpenEdge, HandZeroBase, HandClosed, HandClosedEdge,
              HandAmbiguous}
PartialHands == {Without(HandOpen, {4}), Without(HandOpen, {5}),
                 Without(HandClosed, 3..20)}

\* a detection result: result.landmarks is a list of at most one hand (numHands: 1)
Results == {[landmarks |-> <<>>]}
           \cup {[landmarks |-> <<h>>] : h \in FullHands \cup PartialHands}

----------------------------------------------------------------------------
(* drawHandSkeleton *)

Connections ==
    { <<0, 1>>, <<1, 2>>, <<2, 3>>, <<3, 4>>,
      <<0, 5>>, <<5, 6>>, <<6, 7>>, <<7, 8>>,
      <<0, 9>>, <<9, 10>>, <<10, 11>>, <<11, 12>>,
      <<0, 13>>, <<13, 14>>, <<14, 15>>, <<15, 16>>,
      <<0, 17>>, <<17, 18>>, <<18, 19>>, <<19, 20>>,
      <<5, 9>>, <<9, 13>>, <<13, 17>> }

\* startPoint.x / endPoint.x of a missing landmark is a TypeError
drawHandSkeletonThrows(landmarks) ==
    \E c \in Connections : c[1] \notin DOMAIN landmarks \/ c[2] \notin DOMAIN landmarks

----------------------------------------------------------------------------
(* detectGesture *)

\* squared Math.hypot of the difference of two points
Hypot2(p, q) == (p[1] - q[1]) * (p[1] - q[1]) + (p[2] - q[2]) * (p[2] - q[2])

\* ratio = distTips / (distBases || 1e-5) compared with r10 / 10.  With
\* distBases = 0 the divisor is 1e-5: any nonzero grid distance then gives a
\* ratio above every threshold, and distTips = 0 gives ratio 0.
RatioAtLeast(distTips2, distBases2, r10) ==
    IF distBases2 = 0 THEN distTips2 > 0
    ELSE 100 * distTips2 >= r10 * r10 * distBases2

RatioAtMost_Strict(distTips2, distBases2, r10) ==
    IF distBases2 = 0 THEN FALSE
    ELSE 100 * distTips2 < r10 * r10 * distBases2

RatioAtMost_UpToOpen(distTips2, distBases2, r10) ==
    IF distBases2 = 0 THEN distTips2 = 0
    ELSE 100 * distTips2 < OPEN_RATIO_TENTHS * OPEN_RATIO_TENTHS * distBases2

RatioAtMost(distTips2, distBases2, r10) ==
    IF distBases2 = 0 THEN distTips2 = 0
    ELSE 100 * distTips2 <= r10 * r10 * distBases2

Classify(landmarks) ==
    LET distTips2  == Hypot2(landmarks[4], landmarks[8])
        distBases2 == Hypot2(landmarks[2], landmarks[5])
    IN  IF RatioAtLeast(distTips2, distBases2, OPEN_RATIO_TENTHS) THEN "OPEN"
        ELSE IF RatioAtMost(distTips2, distBases2, CLOSED_RATIO_TENTHS) THEN "CLOSED"
        ELSE "AMBIGUOUS"

\* (thumbTip + indexTip) / 2, in millionths
ControlPoint_IndexBase(landmarks) ==
    [x |-> 31250 * (landmarks[4][1] + landmarks[5][1]),
     y |-> 31250 * (landmarks[4][2] + landmarks[5][2]),
     detected |-> TRUE]

ControlPoint(landmarks) ==
    [x |-> 31250 * (landmarks[4][1] + landmarks[8][1]),
     y |-> 31250 * (landmarks[4][2] + landmarks[8][2]),
     detected |-> TRUE]

\* openFrames.current > CONFIDENCE_THRESHOLD, closedFrames.current > CONFIDENCE_THRESHOLD
ExceedsConfidence_NoDebounce(n) == n > 0
ExceedsConfidence_AtThreshold(n) == n >= CONFIDENCE_THRESHOLD
ExceedsConfidence(n) == n > CONFIDENCE_THRESHOLD

\* lastModeRef.current !== target
ShouldEmit_Always(last, target) == TRUE
ShouldEmit(last, target) == last # target

\* the Ambiguous branch: openFrames.current = 0; closedFrames.current = 0
AmbiguousReset_Keep(n) == n
AmbiguousReset(n) == 0

\* The classifier's part of the state, and what one call leaves behind:
\* emit is the argument of onModeChange ("none": not called), thrown says that
\* an exception escaped.
Cur ==
    [lastModeRef |-> lastModeRef, openFrames |-> openFrames,
     closedFrames |-> closedFrames, noHandFrames |-> noHandFrames,
     gestureStatus |-> gestureStatus, handPosition |-> handPosition,
     emit |-> "none", thrown |-> FALSE]

detectGesture(s, landmarks) ==
    IF 4 \notin DOMAIN landmarks \/ 8 \notin DOMAIN landmarks
    THEN [s EXCEPT !.thrown = TRUE]                       \* thumbTip.x / indexTip.x
    ELSE
    LET s1 == [s EXCEPT !.handPosition = ControlPoint(landmarks)]
    IN  IF 2 \notin DOMAIN landmarks \/ 5 \notin DOMAIN landmarks
        THEN [s1 EXCEPT !.thrown = TRUE]                  \* thumbBase.x / indexBase.x
        ELSE
        CASE Classify(landmarks) = "OPEN" ->
               LET n == s1.openFrames + 1
                   fire == ExceedsConfidence(n) /\ ShouldEmit(s1.lastModeRef, CHAOS)
               IN  [s1 EXCEPT !.openFrames = n,
                              !.closedFrames = 0,
                              !.gestureStatus = "Detected: OPEN (Thumb + Index)",
                              !.lastModeRef = IF fire THEN CHAOS ELSE @,
                              !.emit = IF fire THEN CHAOS ELSE "none"]
          [] Classify(landmarks) = "CLOSED" ->
               LET n == s1.closedFrames + 1
                   fire == ExceedsConfidence(n) /\ ShouldEmit(s1.lastModeRef, FORMED)
               IN  [s1 EXCEPT !.closedFrames = n,
                              !.openFrames = 0,
                              !.gestureStatus = "Detected: CLOSED (Pinch)",
                              !.lastModeRef = IF fire THEN FORMED ELSE @,
                              !.emit = IF fire THEN FORMED ELSE "none"]
          [] OTHER ->
               [s1 EXCEPT !.gestureStatus = "Detected: ...",
                          !.openFrames = AmbiguousReset(@),
                          !.closedFrames = AmbiguousReset(@)]

----------------------------------------------------------------------------
(* predictWebcam *)

\* Math.max(0, n - 1)
Decay_Reset(n) == 0
Decay_NoFloor(n) == n - 1
Decay(n) == Max(0, n - 1)

\* noHandFrames.current > NO_HAND_THRESHOLD
NoHandExceeded_AtThreshold(n) == n >= NO_HAND_THRESHOLD
NoHandExceeded(n) == n > NO_HAND_THRESHOLD

\* lastModeRef.current === TreeMode.CHAOS
InChaos_Any(last) == TRUE
InChaos(last) == last = CHAOS

\* onHandPosition(0.5, 0.5, false)
NoHandPosition_Retain(prev) == [prev EXCEPT !.detected = FALSE]
NoHandPosition(prev) == [x |-> 500000, y |-> 500000, detected |-> FALSE]

\* the branch for a result with landmarks (lines 389-393)
HandFrame(s, landmarks) ==
    LET s1 == [s EXCEPT !.noHandFrames = 0]
    IN  IF drawHandSkeletonThrows(landmarks)
        THEN [s1 EXCEPT !.thrown = TRUE]
        ELSE detectGesture(s1, landmarks)

\* the branch for an empty result (lines 394-422)
NoHandFrame(s) ==
    LET n == s.noHandFrames + 1
        fire == NoHandExceeded(n) /\ InChaos(s.lastModeRef)
    IN  [s EXCEPT !.gestureStatus = "No hand detected",
                  !.handPosition = NoHandPosition(@),
                  !.openFrames = Decay(@),
                  !.closedFrames = Decay(@),
                  !.noHandFrames = n,
                  !.lastModeRef = IF fire THEN FORMED ELSE @,
                  !.emit = IF fire THEN FORMED ELSE "none"]

\* result.landmarks && result.landmarks.length > 0
Frame(s, result) ==
    IF Len(result.landmarks) > 0 THEN HandFrame(s, result.landmarks[1])
    ELSE NoHandFrame(s)

\* what the observers call the frame
Kind(result) ==
    IF Len(result.landmarks) = 0 THEN "NOHAND"
    ELSE IF DOMAIN result.landmarks[1] # 0..20 THEN "MALFORMED"
    ELSE Classify(result.landmarks[1])

\* the frames the exploration offers in the current state
Offered(result) ==
    CASE Kind(result) = "OPEN"      -> openFrames < MaxFrames
      [] Kind(result) = "CLOSED"    -> closedFrames < MaxFrames
      [] Kind(result) = "AMBIGUOUS" -> runKind # "AMBIGUOUS" \/ runLen < MaxFrames
      [] Kind(result) = "NOHAND"    -> noHandFrames < NO_HAND_THRESHOLD + MaxNoHandOver
      [] OTHER -> TRUE

Observe(k, r) ==
    LET new == runKind # k
        len == IF new THEN 1 ELSE runLen + 1
        fired == r.emit # "none"
    IN  /\ runKind' = k
        /\ runLen' = len
        /\ runStartMode' = IF new THEN lastModeRef ELSE runStartMode
        /\ runStartZero' = IF new THEN openFrames = 0 /\ closedFrames = 0
                           ELSE runStartZero
        /\ runEmits' = Min(MaxCount, (IF new THEN 0 ELSE runEmits)
                                     + (IF fired THEN 1 ELSE 0))
        /\ runEmitAt' = IF fired /\ (new \/ runEmitAt = 0) THEN len
                        ELSE IF new THEN 0 ELSE runEmitAt
        /\ lastEmit' = IF fired THEN r.emit ELSE lastEmit
        /\ emitTick' = IF fired THEN 1 - emitTick ELSE emitTick
        /\ osc' = IF osc = -1 THEN -1
                  ELSE IF k = "OPEN" /\ len <= 5 THEN osc
                  ELSE IF k = "AMBIGUOUS"
                       THEN (IF runKind = "OPEN" THEN Min(MaxCount, osc + 1) ELSE osc)
                  ELSE -1
        /\ thrown' = (thrown \/ r.thrown)
        /\ UNCHANGED toggled

\* one call of predictWebcam (lines 382-426); ready is videoWidth > 0
predictWebcam(ready, result) ==
    IF handLandmarker = "null" \/ ~videoRef
    THEN \* early return: nothing is rescheduled
         /\ animationFrame' = "idle"
         /\ UNCHANGED <<appVars, refVars, obsVars>>
    ELSE IF ~ready
    THEN /\ animationFrame' = "scheduled"
         /\ UNCHANGED <<appVars, refVars, obsVars>>
    ELSE LET r == Frame(Cur, result)
         IN  /\ lastModeRef' = r.lastModeRef
             /\ openFrames' = r.openFrames
             /\ closedFrames' = r.closedFrames
             /\ noHandFrames' = r.noHandFrames
             /\ gestureStatus' = r.gestureStatus
             /\ handPosition' = r.handPosition
             \* onModeChange is App's setMode
             /\ pendingMode' = IF r.emit # "none" THEN r.emit ELSE pendingMode
             /\ UNCHANGED mode
             \* an exception skips requestAnimationFrame(predictWebcam)
             /\ animationFrame' = IF r.thrown THEN "idle" ELSE "scheduled"
             /\ Observe(Kind(result), r)
             /\ lastResult' = result

----------------------------------------------------------------------------
(* Experience: constants and arithmetic of the frame callback *)

\* 1.0 of a hand coordinate, in millionths
Unit == 1000000
\* Math.PI, in thousandths of a degree
PI == 180000

minPolar == PI \div 4                 \* Math.PI / 4
maxPolar == (10 * PI) \div 18         \* Math.PI / 1.8
\* alpha = 0.18, in hundredths
alpha == 18
lerpSpeed == 8

\* n / d rounded to the nearest integer (d even)
Round(n, d) == (n + d \div 2) \div d

\* THREE.MathUtils.lerp(x, y, t) = (1 - t) * x + t * y, with t = tNum / tDen
lerp_Swapped(x, y, tNum, tDen) == Round(tNum * x + (tDen - tNum) * y, tDen)
lerp(x, y, tNum, tDen) == Round((tDen - tNum) * x + tNum * y, tDen)

\* handPosition.detected && mode === TreeMode.CHAOS
hasHand_IgnoreMode(hp, m) == hp.detected
hasHand(hp, m) == hp.detected /\ m = CHAOS

\* (sx - 0.5) * Math.PI * 3
targetAzimuth(sx) ==
    Round((sx - Unit \div 2) * 3 * (PI \div 10000), Unit \div 10000)

\* minPolar + clamp((sy - 0.2) * 2.0, 0, 1) * (maxPolar - minPolar)
targetPolar_Unclamped(sy) ==
    minPolar + Round((sy - Unit \div 5) * 2 * ((maxPolar - minPolar) \div 1000),
                     Unit \div 1000)

targetPolar(sy) ==
    LET adjustedY == (sy - Unit \div 5) * 2
        clampedY == Max(0, Min(Unit, adjustedY))
    IN  minPolar + Round(clampedY * ((maxPolar - minPolar) \div 1000), Unit \div 1000)

\* if (azimuthDiff > Math.PI) azimuthDiff -= Math.PI * 2;
\* if (azimuthDiff < -Math.PI) azimuthDiff += Math.PI * 2;
WrapAzimuthDiff_None(d) == d
WrapAzimuthDiff(d) ==
    LET d1 == IF d > PI THEN d - 2 * PI ELSE d
    IN  IF d1 < -PI THEN d1 + 2 * PI ELSE d1

\* autoSpeed: 0.35 rad/s in CHAOS, 0.15 rad/s otherwise
autoSpeed_Swapped(m) == IF m = CHAOS THEN 8594 ELSE 20054
autoSpeed(m) == IF m = CHAOS THEN 20054 ELSE 8594
\* targetSpin: 0.25 rad/s in CHAOS, 0 otherwise
targetSpin(m) == IF m = CHAOS THEN 14324 ELSE 0

\* the else branch never assigns smoothHandRef.current
AutoSmoothHand_Reseed(sm) == [x |-> Unit \div 2, y |-> Unit \div 2]
AutoSmoothHand(sm) == sm

\* the angle a position at angle a is read back at, in (-PI, PI]
Normalize(a) == ((a + PI - 1) % (2 * PI)) - PI + 1

\* controls.object.position.set(x, y, z); controls.target.set(0, targetY, 0);
\* controls.update(): the rig is read back from the new position, and the
\* polar angle is kept within minPolarAngle .. maxPolarAngle
update(newAzimuth, newPolar) ==
    LET flipped == newPolar < 0 \/ newPolar > PI       \* sin(newPolar) < 0
        phi == IF newPolar < 0 THEN -newPolar
               ELSE IF newPolar > PI THEN 2 * PI - newPolar
               ELSE newPolar
    IN  [azimuth |-> Normalize(IF flipped THEN newAzimuth + PI ELSE newAzimuth),
         polar |-> Max(minPolar, Min(maxPolar, phi))]

\* camera={{ position: [0, 4, 20] }} seen from the origin: acos(4 / hypot(4, 20))
InitialPolar == 78690

----------------------------------------------------------------------------
(* The effect: setupMediaPipe, startWebcam, cleanup *)

\* catch of setupMediaPipe: setGestureStatus("Gesture control unavailable")
SetupFailedStatus_Unset(prev) == prev
SetupFailedStatus(prev) == "Gesture control unavailable"

\* catch of startWebcam: setGestureStatus("Permission Denied")
WebcamDeniedStatus(prev) == "Permission Denied"

InitSession ==
    /\ mode = FORMED
    /\ pendingMode = FORMED
    /\ handPosition = [x |-> 500000, y |-> 500000, detected |-> FALSE]
    /\ lastModeRef = FORMED
    /\ openFrames = 0
    /\ closedFrames = 0
    /\ noHandFrames = 0
    /\ gestureStatus = "Initializing..."
    /\ handLandmarker = "null"
    /\ animationFrame = "idle"
    /\ setupPc = "forVisionTasks"
    /\ streamLive = FALSE
    /\ listener = FALSE
    /\ loadedFired = FALSE
    /\ videoRef = TRUE
    /\ tornDown = FALSE
    /\ runKind = "none"
    /\ runLen = 0
    /\ runStartMode = FORMED
    /\ runStartZero = TRUE
    /\ runEmits = 0
    /\ runEmitAt = 0
    /\ lastEmit = "none"
    /\ emitTick = 0
    /\ osc = 0
    /\ toggled = FALSE
    /\ thrown = FALSE
    /\ lastResult = [landmarks |-> <<>>]

\* what the orbit observers start from
InitOrbitObs ==
    /\ ticks = 0
    /\ branches = {}
    /\ azimuthDiff = 0
    /\ heldTicks = 0
    /\ heldFrom = [x |-> Unit \div 2, y |-> Unit \div 2]

\* no photo, text or audio yet: no card is mounted
InitNoCards ==
    /\ cards = <<>>
    /\ shadowCards = <<>>
    /\ cardTicks = 0

\* a fresh checkout: photos/ is empty, public/photos holds nothing
InitManifest ==
    /\ photosDir = {}
    /\ publicDir = {}
    /\ manifestFile = "absent"
    /\ copyFailed = {}
    /\ runTick = 0

\* useState([]) for the photos; the mount effect has started the fetch
InitUploads ==
    /\ uploadedPhotos = <<>>
    /\ batches = <<>>
    /\ fetchPc = "pending"
    /\ fetched = "none"

\* useState(false), useRef(null), no recording yet
InitRecorder ==
    /\ isRecording = FALSE
    /\ mediaRecorderRef = 0
    /\ recorders = <<>>
    /\ audioChunksRef = <<>>
    /\ pendingMedia = 0
    /\ uploadedAudios = <<>>

InitUi ==
    /\ InitUploads
    /\ InitRecorder

InitRest ==
    /\ InitNoCards
    /\ InitManifest
    /\ InitUi

InitExperience ==
    /\ controlsRef = TRUE
    /\ smoothHandRef = [x |-> Unit \div 2, y |-> Unit \div 2]
    /\ azimuth = 0
    /\ polar = InitialPolar
    /\ spinSpeedRef = 0
    /\ rotationY = 0
    /\ InitOrbitObs

Init ==
    /\ InitSession
    /\ InitExperience
    /\ InitRest

\* await FilesetResolver.forVisionTasks(...) settles
ForVisionTasksSettled ==
    /\ setupPc = "forVisionTasks"
    /\ \E ok \in BOOLEAN :
         IF ok
         THEN /\ setupPc' = "createFromOptions"
              /\ UNCHANGED gestureStatus
         ELSE /\ setupPc' = "failed"
              /\ gestureStatus' = SetupFailedStatus(gestureStatus)
    /\ UNCHANGED <<appVars, lastModeRef, openFrames, closedFrames, noHandFrames,
                   handLandmarker, animationFrame, streamLive, listener,
                   loadedFired, videoRef, tornDown, obsVars>>
    /\ UNCHANGED <<orbitVars, orbitObsVars, restVars>>

\* await HandLandmarker.createFromOptions(...) settles; on success
\* startWebcam() runs up to its await
CreateFromOptionsSettled ==
    /\ setupPc = "createFromOptions"
    /\ \E ok \in BOOLEAN, hasMedia \in BOOLEAN :
         IF ok
         THEN /\ handLandmarker' = "open"
              /\ setupPc' = IF hasMedia THEN "getUserMedia" ELSE "done"
              /\ UNCHANGED gestureStatus
         ELSE /\ setupPc' = "failed"
              /\ gestureStatus' = SetupFailedStatus(gestureStatus)
              /\ UNCHANGED handLandmarker
    /\ UNCHANGED <<appVars, lastModeRef, openFrames, closedFrames, noHandFrames,
                   animationFrame, streamLive, listener, loadedFired, videoRef,
                   tornDown, obsVars>>
    /\ UNCHANGED <<orbitVars, orbitObsVars, restVars>>

\* await navigator.mediaDevices.getUserMedia(...) settles
GetUserMediaSettled ==
    /\ setupPc = "getUserMedia"
    /\ \E ok \in BOOLEAN :
         IF ok
         THEN /\ streamLive' = TRUE
              /\ setupPc' = "done"
              /\ IF videoRef
                 THEN /\ listener' = TRUE
                      /\ gestureStatus' = "Waiting for hand..."
                 ELSE UNCHANGED <<listener, gestureStatus>>
         ELSE /\ setupPc' = "denied"
              /\ gestureStatus' = WebcamDeniedStatus(gestureStatus)
              /\ UNCHANGED <<streamLive, listener>>
    /\ UNCHANGED <<appVars, lastModeRef, openFrames, closedFrames, noHandFrames,
                   handLandmarker, animationFrame, loadedFired, videoRef,
                   tornDown, obsVars>>
    /\ UNCHANGED <<orbitVars, orbitObsVars, restVars>>

\* the video element delivers loadeddata to the registered listener
LoadedData ==
    /\ listener
    /\ ~loadedFired
    /\ loadedFired' = TRUE
    /\ \E ready \in BOOLEAN, result \in Results :
         Offered(result) /\ predictWebcam(ready, result)
    /\ UNCHANGED <<handLandmarker, setupPc, streamLive, listener, videoRef, tornDown>>
    /\ UNCHANGED <<orbitVars, orbitObsVars, restVars>>

\* the browser runs the pending requestAnimationFrame callback
AnimationFrame ==
    /\ animationFrame = "scheduled"
    /\ \E ready \in BOOLEAN, result \in Results :
         Offered(result) /\ predictWebcam(ready, result)
    /\ UNCHANGED <<handLandmarker, setupPc, streamLive, listener, loadedFired,
                   videoRef, tornDown>>
    /\ UNCHANGED <<orbitVars, orbitObsVars, restVars>>

\* the effect's cleanup, run when the component unmounts (React has detached
\* videoRef by then)
Cleanup ==
    /\ ~tornDown
    /\ tornDown' = TRUE
    /\ videoRef' = FALSE
    /\ animationFrame' = "idle"                       \* cancelAnimationFrame
    /\ handLandmarker' = IF handLandmarker = "open" THEN "closed" ELSE handLandmarker
    /\ UNCHANGED <<appVars, refVars, setupPc, streamLive, listener, loadedFired,
                   obsVars>>
    /\ UNCHANGED <<orbitVars, orbitObsVars, restVars>>

----------------------------------------------------------------------------
(* App *)

\* toggleMode: setMode(prev => prev === FORMED ? CHAOS : FORMED)
toggleMode ==
    /\ pendingMode' = IF pendingMode = FORMED THEN CHAOS ELSE FORMED
    /\ toggled' = TRUE
    /\ osc' = -1
    /\ UNCHANGED <<mode, handPosition, refVars, envVars, runKind, runLen,
                   runStartMode, runStartZero, runEmits, runEmitAt, lastEmit,
                   emitTick, thrown, lastResult>>
    /\ UNCHANGED <<orbitVars, orbitObsVars, restVars>>

\* React commits the queued mode; the changed currentMode prop runs the
\* effect  lastModeRef.current = currentMode  of a mounted GestureController
Render ==
    /\ pendingMode # mode
    /\ mode' = pendingMode
    /\ lastModeRef' = IF tornDown THEN lastModeRef ELSE pendingMode
    /\ UNCHANGED <<pendingMode, handPosition, openFrames, closedFrames,
                   noHandFrames, gestureStatus, envVars, obsVars>>
    /\ UNCHANGED <<orbitVars, orbitObsVars, restVars>>

Next ==
    \/ ForVisionTasksSettled
    \/ CreateFromOptionsSettled
    \/ GetUserMediaSettled
    \/ LoadedData
    \/ AnimationFrame
    \/ Cleanup
    \/ toggleMode
    \/ Render

Spec == Init /\ [][Next]_vars

----------------------------------------------------------------------------
(* The same program with the hand held open for a long time and then taken *)
(* out of view: only the OPEN hand and the empty result are offered, and    *)
(* openFrames may grow far enough to outlast the no-hand timeout.           *)

HeldFrames == NO_HAND_THRESHOLD + CONFIDENCE_THRESHOLD + MaxNoHandOver

HeldResults == {[landmarks |-> <<>>], [landmarks |-> <<HandOpen>>]}

OfferedHeld(result) ==
    IF Kind(result) = "OPEN" THEN openFrames < HeldFrames
    ELSE noHandFrames < NO_HAND_THRESHOLD + MaxNoHandOver

LoadedDataHeld ==
    /\ listener
    /\ ~loadedFired
    /\ loadedFired' = TRUE
    /\ \E ready \in BOOLEAN, result \in HeldResults :
         OfferedHeld(result) /\ predictWebcam(ready, result)
    /\ UNCHANGED <<handLandmarker, setupPc, streamLive, listener, videoRef, tornDown>>
    /\ UNCHANGED <<orbitVars, orbitObsVars, restVars>>

AnimationFrameHeld ==
    /\ animationFrame = "scheduled"
    /\ \E ready \in BOOLEAN, result \in HeldResults :
         OfferedHeld(result) /\ predictWebcam(ready, result)
    /\ UNCHANGED <<handLandmarker, setupPc, streamLive, listener, loadedFired,
                   videoRef, tornDown>>
    /\ UNCHANGED <<orbitVars, orbitObsVars, restVars>>

NextHeld ==
    \/ ForVisionTasksSettled
    \/ CreateFromOptionsSettled
    \/ GetUserMediaSettled
    \/ LoadedDataHeld
    \/ AnimationFrameHeld
    \/ Render

SpecHeld == Init /\ [][NextHeld]_vars

----------------------------------------------------------------------------
(* Experience: the frame callback *)

\* handleHandPosition: setHandPosition({ x, y, detected })
handleHandPosition(p) ==
    /\ handPosition' = p
    /\ heldTicks' = 0
    /\ UNCHANGED <<mode, pendingMode, refVars, envVars, obsVars, orbitVars,
                   ticks, branches, azimuthDiff, heldFrom, restVars>>

\* one useFrame callback; delta is the frame time in milliseconds
useFrame(delta) ==
    LET hand == controlsRef /\ hasHand(handPosition, mode)
        auto == controlsRef /\ ~hasHand(handPosition, mode)
        smooth == IF hand
                  THEN [x |-> lerp(smoothHandRef.x, handPosition.x, alpha, 100),
                        y |-> lerp(smoothHandRef.y, handPosition.y, alpha, 100)]
                  ELSE IF auto THEN AutoSmoothHand(smoothHandRef)
                  ELSE smoothHandRef
        diff == WrapAzimuthDiff(targetAzimuth(smooth.x) - azimuth)
        handRig == update(azimuth + Round(diff * delta * lerpSpeed, 1000),
                          polar + Round((targetPolar(smooth.y) - polar)
                                        * delta * lerpSpeed, 1000))
        \* lerp(currentPolar, (minPolar + maxPolar) / 2, delta * 1.5)
        autoRig == update(azimuth + Round(autoSpeed(mode) * delta, 1000),
                          lerp(polar, (minPolar + maxPolar) \div 2, 3 * delta, 2000))
        rig == IF hand THEN handRig
               ELSE IF auto THEN autoRig
               ELSE [azimuth |-> azimuth, polar |-> polar]
        spin == lerp(spinSpeedRef, targetSpin(mode), 3 * delta, 2000)
    IN  /\ smoothHandRef' = smooth
        /\ azimuth' = rig.azimuth
        /\ polar' = rig.polar
        /\ spinSpeedRef' = spin
        /\ rotationY' = rotationY + Round(spin * delta, 1000)
        /\ ticks' = ticks + 1
        /\ branches' = (IF hand THEN {"hand"} ELSE {}) \cup (IF auto THEN {"auto"} ELSE {})
        /\ azimuthDiff' = IF hand THEN diff ELSE azimuthDiff
        /\ heldTicks' = IF hand THEN heldTicks + 1 ELSE 0
        /\ heldFrom' = IF hand /\ heldTicks = 0 THEN smoothHandRef ELSE heldFrom
        /\ UNCHANGED <<appVars, refVars, envVars, obsVars, controlsRef, restVars>>

\* frame times of 16 ms (60 Hz) and 200 ms (5 Hz, or the frame after a stall)
Deltas == {16, 200}

\* hand positions App can hold: the neutral one of a frame without a hand,
\* the two corners of the image, and a point right of the centre
HandPositions ==
    {[x |-> Unit \div 2, y |-> Unit \div 2, detected |-> FALSE],
     [x |-> 0, y |-> 0, detected |-> TRUE],
     [x |-> Unit, y |-> Unit, detected |-> TRUE],
     [x |-> 9 * (Unit \div 10), y |-> Unit \div 2, detected |-> TRUE]}

\* poses the rig and the smoothed point are started from: the smoothed point
\* at the centre or settled on a corner of the image, the camera in front of,
\* behind and beside the tree, level with the limits or in between
SmoothStarts ==
    {[x |-> Unit \div 2, y |-> Unit \div 2], [x |-> 2, y |-> 2],
     [x |-> Unit - 2, y |-> Unit - 2]}
AzimuthStarts == {-PI, -(PI \div 2), 0, PI}
PolarStarts == {minPolar, InitialPolar, maxPolar}

InitOrbit ==
    /\ InitSession
    /\ controlsRef = TRUE
    /\ smoothHandRef \in SmoothStarts
    /\ azimuth \in AzimuthStarts
    /\ polar \in PolarStarts
    /\ spinSpeedRef = 0
    /\ rotationY = 0
    /\ InitOrbitObs
    /\ InitRest

handleHandPositionAny ==
    \E p \in HandPositions : p # handPosition /\ handleHandPosition(p)

useFrameTick ==
    /\ ticks < MaxTicks
    /\ \E delta \in Deltas : useFrame(delta)

NextOrbit ==
    \/ toggleMode
    \/ Render
    \/ handleHandPositionAny
    \/ useFrameTick

SpecOrbit == InitOrbit /\ [][NextOrbit]_vars

----------------------------------------------------------------------------
(* One hand position held in front of the camera: the first detected       *)
(* position stays, and the callbacks that run are the hand-driven ones.    *)

\* the last two lie below and above the image (a hand partly out of frame)
HoldPoints ==
    {[x |-> 9 * (Unit \div 10), y |-> Unit \div 2, detected |-> TRUE],
     [x |-> 0, y |-> Unit, detected |-> TRUE],
     [x |-> Unit \div 2, y |-> Unit \div 10, detected |-> TRUE],
     [x |-> Unit \div 2, y |-> 12 * (Unit \div 10), detected |-> TRUE],
     [x |-> Unit \div 2, y |-> -(Unit \div 10), detected |-> TRUE]}

handleHandPositionHold ==
    /\ ~handPosition.detected
    /\ \E p \in HoldPoints : handleHandPosition(p)

useFrameHold ==
    /\ ticks < MaxHoldTicks
    /\ hasHand(handPosition, mode)
    /\ useFrame(16)

NextHold ==
    \/ toggleMode
    \/ Render
    \/ handleHandPositionHold
    \/ useFrameHold

SpecHold == Init /\ [][NextHold]_vars

----------------------------------------------------------------------------
(* The cards: PolaroidItem, TextCardItem and AudioCardItem.  Positions are  *)
(* in hundredths of a scene unit, scales and speeds in thousandths; the    *)
(* orientation of a card (it faces the camera and sways) is not kept.      *)

CardKinds == {"photo", "text", "audio"}

\* targetPos and chaosPos of the first card of a one-element list
\* (Polaroids.tsx 190-225, TextCards.tsx 162-189, AudioCards.tsx 161-188)
CardData(kind) ==
    CASE kind = "photo" -> [targetPos |-> <<480, 180, 0>>,
                            chaosPos |-> <<1100, 600, 0>>]
      [] kind = "text"  -> [targetPos |-> <<244, 225, 422>>,
                            chaosPos |-> <<600, 600, 1039>>]
      [] kind = "audio" -> [targetPos |-> <<-246, 270, 426>>,
                            chaosPos |-> <<-650, 600, 1126>>]

\* speed: 0.8 + Math.random() * 1.5 for a photo, 0.9 + Math.random() * 1.2
\* for a text or audio card: the slowest, or a fast one
CardSpeed(kind, fast) ==
    IF kind = "photo" THEN (IF fast THEN 2200 ELSE 800)
    ELSE (IF fast THEN 2000 ELSE 900)

\* Vector3.lerp(v, alpha): this += (v - this) * alpha, alpha in millionths
lerpVector(pos, v, alphaMillionths) ==
    [i \in 1..3 |-> pos[i] + Round((v[i] - pos[i]) * alphaMillionths, 1000000)]

\* isFormed ? data.targetPos : data.chaosPos
CardTarget_Magnet(kind, m, hp) ==
    IF m = FORMED THEN CardData(kind).targetPos
    ELSE IF hp.detected
         THEN <<(hp.x - Unit \div 2) \div 1000, (Unit \div 2 - hp.y) \div 1000, 1500>>
         ELSE CardData(kind).chaosPos

CardTarget(kind, m, hp) ==
    IF m = FORMED THEN CardData(kind).targetPos ELSE CardData(kind).chaosPos

\* const currentScale = scale.x || 1; lerp(currentScale, 1, delta * 3)
ScaleToOne(scale, delta) ==
    lerp(IF scale = 0 THEN 1000 ELSE scale, 1000, 3 * delta, 1000)

\* the useFrame callback of PolaroidItem: in CHAOS the scale is set to 1
PolaroidItem_useFrame(c, m, hp, delta) ==
    [c EXCEPT !.position = lerpVector(@, CardTarget("photo", m, hp), delta * c.speed),
              !.scale = IF m = FORMED THEN ScaleToOne(@, delta) ELSE 1000]

\* the useFrame callback of TextCardItem
TextCardItem_useFrame(c, m, hp, delta) ==
    [c EXCEPT !.position = lerpVector(@, CardTarget("text", m, hp), delta * c.speed),
              !.scale = ScaleToOne(@, delta)]

\* the useFrame callback of AudioCardItem
AudioCardItem_useFrame(c, m, hp, delta) ==
    [c EXCEPT !.position = lerpVector(@, CardTarget("audio", m, hp), delta * c.speed),
              !.scale = ScaleToOne(@, delta)]

CardFrame(kind, c, m, hp, delta) ==
    CASE kind = "photo" -> PolaroidItem_useFrame(c, m, hp, delta)
      [] kind = "text"  -> TextCardItem_useFrame(c, m, hp, delta)
      [] kind = "audio" -> AudioCardItem_useFrame(c, m, hp, delta)

\* one rendered frame: the callback of every mounted card runs with the
\* committed mode and hand position
CardsFrame ==
    /\ cardTicks < MaxCardTicks
    /\ \E delta \in Deltas :
         /\ cards' = [k \in DOMAIN cards |->
                          CardFrame(k, cards[k], mode, handPosition, delta)]
         /\ shadowCards' = [k \in DOMAIN shadowCards |->
                          CardFrame(k, shadowCards[k], mode,
                                    [x |-> Unit \div 2, y |-> Unit \div 2,
                                     detected |-> FALSE], delta)]
    /\ cardTicks' = cardTicks + 1
    /\ UNCHANGED <<appVars, refVars, envVars, obsVars, orbitVars, orbitObsVars,
                   manifestVars, uiVars>>

\* one photo, one text and one recording have been added: their cards are
\* mounted at the origin of the scene group with scale 1
InitCards ==
    /\ InitSession
    /\ InitExperience
    /\ \E fast \in BOOLEAN :
         cards = [k \in CardKinds |->
                      [position |-> <<0, 0, 0>>, scale |-> 1000,
                       speed |-> CardSpeed(k, fast)]]
    /\ shadowCards = cards
    /\ cardTicks = 0
    /\ InitManifest
    /\ InitUi

NextCards ==
    \/ toggleMode
    \/ Render
    \/ handleHandPositionAny
    \/ CardsFrame

SpecCards == InitCards /\ [][NextCards]_vars

----------------------------------------------------------------------------
(* The manifest script (README.md, generate-photo-manifest listing).  A    *)
(* file name is a sequence of characters.                                   *)

Upper == <<"A", "B", "C", "D", "E", "F", "G", "H", "I", "J", "K", "L", "M",
           "N", "O", "P", "Q", "R", "S", "T", "U", "V", "W", "X", "Y", "Z">>
Lower == <<"a", "b", "c", "d", "e", "f", "g", "h", "i", "j", "k", "l", "m",
           "n", "o", "p", "q", "r", "s", "t", "u", "v", "w", "x", "y", "z">>

\* the UTF-16 code unit of a character
Code(c) ==
    IF \E i \in 1..26 : Upper[i] = c THEN 64 + (CHOOSE i \in 1..26 : Upper[i] = c)
    ELSE IF \E i \in 1..26 : Lower[i] = c THEN 96 + (CHOOSE i \in 1..26 : Lower[i] = c)
    ELSE IF c = "." THEN 46
    ELSE 47                                                          \* "/"

\* String.prototype.toLowerCase
toLowerCase(str) ==
    [i \in 1..Len(str) |->
        IF \E k \in 1..26 : Upper[k] = str[i]
        THEN Lower[CHOOSE k \in 1..26 : Upper[k] = str[i]]
        ELSE str[i]]

\* path.extname: from the last "." to the end; "" when there is no "." or
\* the only one is the first character
extname(file) ==
    LET dots == {i \in 1..Len(file) : file[i] = "."}
    IN  IF dots = {} THEN <<>>
        ELSE LET last == CHOOSE i \in dots : \A j \in dots : j <= i
             IN  IF last = 1 THEN <<>> ELSE SubSeq(file, last, Len(file))

SUPPORTED_EXTS ==
    {<<".", "j", "p", "g">>, <<".", "j", "p", "e", "g">>, <<".", "p", "n", "g">>,
     <<".", "g", "i", "f">>, <<".", "w", "e", "b", "p">>}

\* SUPPORTED_EXTS.includes(path.extname(file).toLowerCase())
Supported_CaseSensitive(file) == extname(file) \in SUPPORTED_EXTS
Supported(file) == toLowerCase(extname(file)) \in SUPPORTED_EXTS

\* the default comparison of Array.prototype.sort: by code units
RECURSIVE Before(_, _)
Before(a, b) ==
    IF b = <<>> THEN FALSE
    ELSE IF a = <<>> THEN TRUE
    ELSE IF Code(Head(a)) # Code(Head(b)) THEN Code(Head(a)) < Code(Head(b))
    ELSE Before(Tail(a), Tail(b))

\* files.filter(...).sort() of the names in a folder
RECURSIVE Sorted(_)
Sorted(names) ==
    IF names = {} THEN <<>>
    ELSE LET first == CHOOSE n \in names : \A o \in names \ {n} : Before(n, o)
         IN  <<first>> \o Sorted(names \ {first})

\* `/photos/${file}`
PhotoPath(file) == <<"/", "p", "h", "o", "t", "o", "s", "/">> \o file

MANIFEST_NAME == <<"m", "a", "n", "i", "f", "e", "s", "t", ".", "j", "s", "o", "n">>

\* the names a photos folder is filled from
PhotoNames == {<<"a", ".", "j", "p", "g">>, <<"B", ".", "J", "P", "G">>, <<"c", ".", "w", "e", "b", "p">>, <<"n", ".", "t", "x", "t">>}

\* the folders generateManifest leaves behind: failed is the set of files
\* whose copyFileSync throws (the error is ignored)
generateManifest(failed) ==
    LET copied == {f \in photosDir : Supported(f)} \ failed
        files == publicDir \cup copied
    IN  [publicDir |-> files \cup {MANIFEST_NAME},
         photos |-> [i \in 1..Len(Sorted({f \in files : Supported(f)})) |->
                        PhotoPath(Sorted({f \in files : Supported(f)})[i])]]

\* npm run dev / npm run build runs the script
RunManifestScript ==
    /\ \E failed \in SUBSET {f \in photosDir : Supported(f)} :
         /\ Cardinality(failed) <= 1
         /\ publicDir' = generateManifest(failed).publicDir
         /\ manifestFile' = generateManifest(failed).photos
         /\ copyFailed' = failed
    /\ runTick' = 1 - runTick
    /\ UNCHANGED <<photosDir, appVars, refVars, envVars, obsVars, orbitVars,
                   orbitObsVars, cardVars, uiVars>>

\* the user puts a file into photos/
PutPhoto ==
    /\ \E f \in PhotoNames \ photosDir : photosDir' = photosDir \cup {f}
    /\ UNCHANGED <<publicDir, manifestFile, copyFailed, runTick, appVars, refVars,
                   envVars, obsVars, orbitVars, orbitObsVars, cardVars, uiVars>>

\* the user takes a file out of photos/
RemovePhoto ==
    /\ \E f \in photosDir : photosDir' = photosDir \ {f}
    /\ UNCHANGED <<publicDir, manifestFile, copyFailed, runTick, appVars, refVars,
                   envVars, obsVars, orbitVars, orbitObsVars, cardVars, uiVars>>

NextManifest ==
    \/ PutPhoto
    \/ RemovePhoto
    \/ RunManifestScript

SpecManifest == Init /\ [][NextManifest]_vars

----------------------------------------------------------------------------
(* Photo uploads (UIOverlay.handleFileChange, App.handlePhotosUpload) and  *)
(* the manifest fetch of App's mount effect.                               *)

MaxBatches == 1
MaxFiles == 2

\* the files a user can pick: file.type is image/... or not
Files == {[name |-> "p1", image |-> TRUE], [name |-> "p2", image |-> TRUE],
          [name |-> "notes", image |-> FALSE]}

\* e.target.files: up to MaxFiles different files, in the order picked
Selections ==
    {sel \in UNION {[1..n -> Files] : n \in 0..MaxFiles} :
        \A i, j \in 1..Len(sel) : i # j => sel[i] # sel[j]}

\* reader.readAsDataURL(file): event.target.result of the load event
DataUrl(file) == <<"data", file.name>>

\* the entries of manifest.json
ManifestUrl(n) == <<"photos", n>>

\* the files handleFileChange starts a reader for: file.type.startsWith('image/')
RECURSIVE ImagesOf(_)
ImagesOf(sel) ==
    IF sel = <<>> THEN <<>>
    ELSE IF Head(sel).image THEN <<Head(sel)>> \o ImagesOf(Tail(sel))
    ELSE ImagesOf(Tail(sel))

\* Promise.all(readers) resolves with the results in the order of readers
UrlsOf(images) == [i \in 1..Len(images) |-> DataUrl(images[i])]

\* Promise.all(readers) is fulfilled once every reader's promise is; a reader
\* whose load never fires leaves its promise pending
AllResolved(reads) == \A i \in 1..Len(reads) : reads[i] = "loaded"

\* setUploadedPhotos((prev) => [...prev, ...photos])
handlePhotosUpload(prev, photos) == prev \o photos

\* the input's change event
handleFileChange ==
    /\ Len(batches) < MaxBatches
    /\ \E sel \in Selections :
         IF sel = <<>>
         THEN UNCHANGED <<uploadedPhotos, batches>>
         ELSE LET images == ImagesOf(sel)
                  reads == [i \in 1..Len(images) |-> "reading"]
              IN  /\ batches' = Append(batches,
                        [files |-> sel, reads |-> reads,
                         delivered |-> AllResolved(reads)])
                  /\ uploadedPhotos' =
                        IF AllResolved(reads)
                        THEN handlePhotosUpload(uploadedPhotos, UrlsOf(images))
                        ELSE uploadedPhotos
    /\ UNCHANGED <<fetchPc, fetched, appVars, refVars, envVars, obsVars, orbitVars,
                   orbitObsVars, cardVars, manifestVars, recorderVars>>

\* a FileReader finishes: load (onload resolves the promise, and the then of
\* Promise.all runs once the last one has) or error/abort (no handler)
ReadSettles ==
    /\ \E b \in 1..Len(batches) : \E i \in 1..Len(batches[b].reads) :
       \E outcome \in {"loaded", "failed"} :
         /\ batches[b].reads[i] = "reading"
         /\ LET reads == [batches[b].reads EXCEPT ![i] = outcome]
                done == AllResolved(reads)
            IN  /\ batches' = [batches EXCEPT ![b].reads = reads,
                                              ![b].delivered = done]
                /\ uploadedPhotos' =
                      IF done
                      THEN handlePhotosUpload(uploadedPhotos,
                                              UrlsOf(ImagesOf(batches[b].files)))
                      ELSE uploadedPhotos
    /\ UNCHANGED <<fetchPc, fetched, appVars, refVars, envVars, obsVars, orbitVars,
                   orbitObsVars, cardVars, manifestVars, recorderVars>>

\* what the fetch of /photos/manifest.json can settle with
Responses ==
    {[kind |-> "ok", photos |-> <<>>],
     [kind |-> "ok", photos |-> <<ManifestUrl("a")>>],
     [kind |-> "ok", photos |-> <<ManifestUrl("a"), ManifestUrl("b")>>],
     [kind |-> "notArray", photos |-> <<>>],     \* data.photos is not an array
     [kind |-> "notOk", photos |-> <<>>],        \* 404: res.ok is false
     [kind |-> "malformed", photos |-> <<>>],    \* res.json() rejects
     [kind |-> "networkError", photos |-> <<>>]} \* fetch rejects

\* setUploadedPhotos((prev) => (prev.length > 0 ? prev : data.photos))
ManifestUpdater_Replace(prev, photos) == photos
ManifestUpdater(prev, photos) == IF Len(prev) > 0 THEN prev ELSE photos

\* the promise chain of the mount effect settles
ManifestFetchSettles ==
    /\ fetchPc = "pending"
    /\ \E res \in Responses :
         /\ fetched' = res
         /\ uploadedPhotos' =
               IF res.kind = "ok"
               THEN ManifestUpdater(uploadedPhotos, res.photos)
               ELSE uploadedPhotos
    /\ fetchPc' = "settled"
    /\ UNCHANGED <<batches, appVars, refVars, envVars, obsVars, orbitVars,
                   orbitObsVars, cardVars, manifestVars, recorderVars>>

NextUpload ==
    \/ handleFileChange
    \/ ReadSettles
    \/ ManifestFetchSettles

SpecUpload == Init /\ [][NextUpload]_vars

----------------------------------------------------------------------------
(* The voice recorder (UIOverlay.handleAudioClick, App.handleAudioAdd).    *)

MaxRecordings == 3

\* the click handler of the voice button: stop the current recording, or ask
\* for the microphone (the rest of the handler runs when the request settles)
handleAudioClick ==
    /\ IF isRecording
       THEN /\ recorders' =
                 IF mediaRecorderRef = 0 THEN recorders
                 ELSE [recorders EXCEPT ![mediaRecorderRef].state = "inactive",
                                        ![mediaRecorderRef].onstop = TRUE]
            /\ isRecording' = FALSE
            /\ UNCHANGED pendingMedia
       ELSE /\ Len(recorders) + pendingMedia < MaxRecordings
            /\ pendingMedia' = pendingMedia + 1
            /\ UNCHANGED <<recorders, isRecording>>
    /\ UNCHANGED <<mediaRecorderRef, audioChunksRef, uploadedAudios>>
    /\ UNCHANGED <<appVars, refVars, envVars, obsVars, orbitVars, orbitObsVars,
                   cardVars, manifestVars, uploadVars>>

\* an awaited getUserMedia settles: with a stream (a recorder is created,
\* stored in the ref and started) or with an error (alert, nothing else)
GetUserMediaAudioSettled ==
    /\ pendingMedia > 0
    /\ pendingMedia' = pendingMedia - 1
    /\ \E granted \in BOOLEAN :
         IF granted
         THEN /\ recorders' = Append(recorders,
                    [state |-> "recording", onstop |-> FALSE, tracks |-> TRUE])
              /\ mediaRecorderRef' = Len(recorders) + 1
              /\ audioChunksRef' = <<>>
              /\ isRecording' = TRUE
         ELSE UNCHANGED <<recorders, mediaRecorderRef, audioChunksRef, isRecording>>
    /\ UNCHANGED uploadedAudios
    /\ UNCHANGED <<appVars, refVars, envVars, obsVars, orbitVars, orbitObsVars,
                   cardVars, manifestVars, uploadVars>>

\* setUploadedAudios((prev) => [...prev, audioUrl])
handleAudioAdd(prev, audioUrl) == Append(prev, audioUrl)

\* the events of a stopped recorder: dataavailable with what was recorded
\* (pushed when its size is above 0), then stop (recorder.onstop)
RecorderOnStop ==
    /\ \E r \in 1..Len(recorders) : \E hasData \in BOOLEAN :
         /\ recorders[r].onstop
         /\ recorders' = [recorders EXCEPT ![r].onstop = FALSE, ![r].tracks = FALSE]
         /\ audioChunksRef' = IF hasData THEN Append(audioChunksRef, r)
                               ELSE audioChunksRef
         /\ uploadedAudios' = handleAudioAdd(uploadedAudios,
                                   [recorder |-> r, blob |-> audioChunksRef'])
    /\ UNCHANGED <<isRecording, mediaRecorderRef, pendingMedia>>
    /\ UNCHANGED <<appVars, refVars, envVars, obsVars, orbitVars, orbitObsVars,
                   cardVars, manifestVars, uploadVars>>

NextRecorder ==
    \/ handleAudioClick
    \/ GetUserMediaAudioSettled
    \/ RecorderOnStop

SpecRecorder == Init /\ [][NextRecorder]_vars

----------------------------------------------------------------------------
(* Properties of the gesture classifier *)

\* the current run began in FORMED with openFrames = closedFrames = 0 and the
\* mode has had no external change
FreshRun(k) ==
    /\ runKind = k
    /\ runStartMode = FORMED
    /\ runStartZero
    /\ ~toggled

\* C1: from FORMED with zero counters, a run of fewer than CONFIDENCE_THRESHOLD
\* (5) frames with ratio >= OPEN_RATIO calls onModeChange not once and leaves
\* the mode FORMED.
C1_ShortOpenRunKeepsFormed ==
    (FreshRun("OPEN") /\ runLen < 5)
        => /\ runEmits = 0
           /\ lastModeRef = FORMED
           /\ pendingMode = FORMED

\* a run of four OPEN frames from the fresh controller has been processed
C1_Witness ==
    /\ FreshRun("OPEN")
    /\ runLen = 4
    /\ openFrames = 4
    /\ noHandFrames = 0

\* C2: a run of OPEN frames from FORMED with zero counters switches to CHAOS
\* exactly once, on its 6th frame (the first on which openFrames exceeds the
\* threshold 5) and not earlier; later OPEN frames of the run emit nothing.
C2_OpenRunSwitchesOnceAtSixth ==
    FreshRun("OPEN")
        => IF runLen <= 5
           THEN runEmits = 0 /\ lastModeRef = FORMED /\ pendingMode = FORMED
           ELSE /\ runEmits = 1
                /\ runEmitAt = 6
                /\ lastEmit = CHAOS
                /\ lastModeRef = CHAOS
                /\ pendingMode = CHAOS

\* the run has gone two frames past the switching frame
C2_Witness ==
    /\ FreshRun("OPEN")
    /\ runLen = 8
    /\ runEmits = 1
    /\ mode = CHAOS

\* C3: with no external mode change, the mode never changes on a single
\* frame: the hand frame that calls onModeChange is never the first frame of
\* its run of OPEN (or CLOSED) frames; in particular not the single OPEN frame
\* that follows a NoHand gap and the forced restore to FORMED.
C3_NeverOnSingleFrame ==
    (runKind \in {"OPEN", "CLOSED"} /\ runEmits > 0 /\ ~toggled)
        => runEmitAt >= 2

\* C3, in full: the frame that calls onModeChange is at least the
\* N = CONFIDENCE_THRESHOLD = 5th of its run of agreeing frames.
C3_ModeChangeNeedsFullRun ==
    (runKind \in {"OPEN", "CLOSED"} /\ runEmits > 0 /\ ~toggled)
        => runEmitAt >= 5

\* C4 as stated: once the mode is CHAOS, a run of NO_HAND_THRESHOLD (60)
\* NoHand frames has forced the mode back to FORMED, with one onModeChange.
C4_SixtyNoHandFramesRestore ==
    (runKind = "NOHAND" /\ runStartMode = CHAOS /\ ~toggled /\ runLen >= 60)
        => /\ lastModeRef = FORMED
           /\ runEmits = 1

\* C4 amended: once the mode is CHAOS, a run of NoHand frames leaves it CHAOS
\* through its 60th frame and forces it back to FORMED on the 61st (the first
\* on which noHandFrames exceeds NO_HAND_THRESHOLD); onModeChange(FORMED) is
\* called on that frame only, however long the run goes on.
C4_NoHandRunRestoresOnceAt61 ==
    (runKind = "NOHAND" /\ runStartMode = CHAOS /\ ~toggled)
        => IF runLen <= 60
           THEN runEmits = 0 /\ lastModeRef = CHAOS /\ pendingMode = CHAOS
           ELSE /\ runEmits = 1
                /\ runEmitAt = 61
                /\ lastEmit = FORMED
                /\ lastModeRef = FORMED
                /\ pendingMode = FORMED

\* the NoHand run has gone one frame past the restoring frame
C4_Witness ==
    /\ runKind = "NOHAND"
    /\ runStartMode = CHAOS
    /\ ~toggled
    /\ runLen = 62
    /\ runEmits = 1
    /\ mode = FORMED

\* a step that processes a frame, and the kind of that frame
FrameStep(k) ==
    /\ <<runKind, runLen>>' # <<runKind, runLen>>
    /\ runKind' = k

\* a step that calls onModeChange
EmitStep == emitTick' # emitTick

\* n lowered by exactly 1, with floor 0
LoweredByOne(n) == IF n = 0 THEN 0 ELSE n - 1

\* C5 as stated: a NoHand frame leaves the published control point unchanged.
C5_NoHandKeepsControlPoint ==
    [][FrameStep("NOHAND") => handPosition' = handPosition]_vars

\* C5 amended: a NoHand frame does not retain the point last published by a
\* hand frame; it publishes the neutral point (0.5, 0.5) with detected = false.
C5_NoHandPublishesNeutralPoint ==
    [][FrameStep("NOHAND")
         => handPosition' = [x |-> 500000, y |-> 500000, detected |-> FALSE]]_vars

\* a NoHand frame has been processed right after OPEN hand frames, which had
\* published a point off the centre
C5_Witness ==
    /\ runKind = "NOHAND"
    /\ runLen = 1
    /\ openFrames > 0
    /\ handPosition = [x |-> 500000, y |-> 500000, detected |-> FALSE]

\* C6: a frame whose landmark set lacks a required index is treated as a
\* NoHand frame: nothing is thrown, the counters change as for NoHand, and the
\* loop schedules its next frame.
C6_MalformedTreatedAsNoHand ==
    [][FrameStep("MALFORMED")
         => /\ ~thrown'
            /\ openFrames' = LoweredByOne(openFrames)
            /\ closedFrames' = LoweredByOne(closedFrames)
            /\ noHandFrames' = noHandFrames + 1
            /\ animationFrame' = "scheduled"]_vars

\* C7: once the cleanup has run the camera stream is released, no animation
\* frame callback is pending, and no later step changes a counter, calls
\* onModeChange or calls onHandPosition.
C7_TeardownReleasesAndStops ==
    [][tornDown'
         => /\ ~streamLive'
            /\ animationFrame' = "idle"
            /\ (tornDown => UNCHANGED <<openFrames, closedFrames, noHandFrames,
                                        emitTick, handPosition>>)]_vars

\* C7 without the camera: the loop is stopped and no result is applied
C7_TeardownStopsLoop ==
    [][tornDown'
         => /\ animationFrame' = "idle"
            /\ (tornDown => UNCHANGED <<openFrames, closedFrames, noHandFrames,
                                        emitTick, handPosition>>)]_vars

\* C8: onModeChange is never called with the classifier's current mode, and
\* with no external mode change two consecutive calls carry different modes,
\* also while openFrames or closedFrames grows past the threshold.
C8_EmissionIdempotent ==
    [][EmitStep
         => /\ lastEmit' # lastModeRef
            /\ (~toggled /\ lastEmit # "none" => lastEmit' # lastEmit)]_vars

\* CHAOS was emitted, then FORMED on the 6th frame of a CLOSED run, and
\* closedFrames has grown two frames past the threshold with no further call
C8_Witness ==
    /\ runKind = "CLOSED"
    /\ runStartMode = CHAOS
    /\ ~toggled
    /\ runLen = 8
    /\ closedFrames = 8
    /\ runEmits = 1
    /\ lastEmit = FORMED

\* C9: while the frames alternate between OPEN and AMBIGUOUS and no run of
\* OPEN frames is longer than CONFIDENCE_THRESHOLD (5), onModeChange is never
\* called and the mode stays FORMED; an AMBIGUOUS frame leaves openFrames and
\* closedFrames 0.
C9_OscillationNeverSwitches ==
    /\ osc >= 0 => /\ lastEmit = "none"
                   /\ lastModeRef = FORMED
                   /\ pendingMode = FORMED
    /\ runKind = "AMBIGUOUS" => openFrames = 0 /\ closedFrames = 0

\* two OPEN runs have been cut by AMBIGUOUS frames and a third is 5 long
C9_Witness ==
    /\ osc = 2
    /\ runKind = "OPEN"
    /\ runLen = 5

\* C10: a NoHand frame lowers openFrames and closedFrames by exactly 1 with
\* floor 0, so one dropped frame after two or more OPEN frames leaves the
\* progress above 0.
C10_NoHandDecaysByOne ==
    [][FrameStep("NOHAND")
         => /\ openFrames' = LoweredByOne(openFrames)
            /\ closedFrames' = LoweredByOne(closedFrames)
            /\ (runKind = "OPEN" /\ openFrames >= 2 => openFrames' > 0)]_vars

\* the progress kept across dropped frames counted: the mode switched on the
\* 2nd frame of an OPEN run that resumed after a NoHand frame
C10_Witness ==
    /\ runKind = "OPEN"
    /\ runStartMode = FORMED
    /\ ~toggled
    /\ runLen = 2
    /\ runEmitAt = 2
    /\ openFrames = 6

----------------------------------------------------------------------------
(* Frames seen through the last detection result *)

\* a frame was processed in this step
Processed == <<runKind, runLen>>' # <<runKind, runLen>>

\* the frame processed in this step carried a hand with all 21 landmarks
FullHandStep ==
    /\ Processed
    /\ Len(lastResult'.landmarks) > 0
    /\ DOMAIN lastResult'.landmarks[1] = 0..20

\* thumb-index tip distance over base distance of hand h, against 1.1 and 1.5
\* (squared, in hundredths; a zero base distance is replaced by 1e-5)
TipsSq(h) == (h[4][1] - h[8][1]) * (h[4][1] - h[8][1])
             + (h[4][2] - h[8][2]) * (h[4][2] - h[8][2])
BasesSq(h) == (h[2][1] - h[5][1]) * (h[2][1] - h[5][1])
              + (h[2][2] - h[5][2]) * (h[2][2] - h[5][2])
RatioAtMost11(h) ==
    IF BasesSq(h) = 0 THEN TipsSq(h) = 0 ELSE 100 * TipsSq(h) <= 121 * BasesSq(h)
RatioAtLeast15(h) ==
    IF BasesSq(h) = 0 THEN TipsSq(h) > 0 ELSE 100 * TipsSq(h) >= 225 * BasesSq(h)

\* C11: a frame without a hand calls onModeChange only when its noHandFrames
\* is above 60 and the classifier's mode is CHAOS, and then with FORMED; in
\* FORMED such a frame never calls it, and it never moves the mode to CHAOS.
C11_NoHandEmitsOnlyRestore ==
    [][FrameStep("NOHAND") =>
         /\ EmitStep => /\ noHandFrames' > 60
                        /\ lastModeRef = CHAOS
                        /\ lastEmit' = FORMED
                        /\ pendingMode' = FORMED
         /\ lastModeRef = FORMED => ~EmitStep /\ pendingMode' = pendingMode
         /\ lastModeRef' = CHAOS => lastModeRef = CHAOS]_vars

\* a no-hand run in FORMED has passed frame 61 without any call
C11_Witness ==
    /\ runKind = "NOHAND"
    /\ runStartMode = FORMED
    /\ lastModeRef = FORMED
    /\ ~toggled
    /\ noHandFrames = 62
    /\ runEmits = 0
    /\ lastEmit = "none"

\* C12: a frame whose ratio is at most 1.1 increments closedFrames and zeroes
\* openFrames, and calls onModeChange, with FORMED, exactly when the new
\* closedFrames is above 5 and the classifier's mode is not FORMED.
C12_ClosedPathSymmetric ==
    [][FullHandStep /\ RatioAtMost11(lastResult'.landmarks[1]) =>
         /\ closedFrames' = closedFrames + 1
         /\ openFrames' = 0
         /\ EmitStep <=> (closedFrames' > 5 /\ lastModeRef # FORMED)
         /\ EmitStep => lastEmit' = FORMED /\ pendingMode' = FORMED
                        /\ lastModeRef' = FORMED]_vars

\* the sixth frame of a run at ratio exactly 1.1 has restored FORMED
C12_Witness ==
    /\ lastResult = [landmarks |-> <<HandClosedEdge>>]
    /\ runKind = "CLOSED"
    /\ runStartMode = CHAOS
    /\ closedFrames = 6
    /\ openFrames = 0
    /\ runEmitAt = 6
    /\ lastEmit = FORMED
    /\ lastModeRef = FORMED

\* C13: a frame with a hand sets noHandFrames to 0 and publishes the midpoint
\* of landmarks 4 and 8 with detected = true, whether the frame is OPEN,
\* CLOSED or AMBIGUOUS; noHandFrames is the length of the current run of
\* frames without a hand.
C13_HandFramePublishesMidpoint ==
    [][/\ FullHandStep =>
            LET h == lastResult'.landmarks[1]
            IN  /\ noHandFrames' = 0
                /\ handPosition'.detected
                \* ((a + b) / 2) / 16 of the unit, exactly
                /\ 32 * handPosition'.x = 1000000 * (h[4][1] + h[8][1])
                /\ 32 * handPosition'.y = 1000000 * (h[4][2] + h[8][2])
       /\ FrameStep("NOHAND") => noHandFrames' = runLen']_vars

\* an AMBIGUOUS frame right after a frame of another kind has published its
\* midpoint (15/32, 10/32)
C13_Witness ==
    /\ lastResult = [landmarks |-> <<HandAmbiguous>>]
    /\ runKind = "AMBIGUOUS"
    /\ runLen = 1
    /\ noHandFrames = 0
    /\ handPosition = [x |-> 468750, y |-> 312500, detected |-> TRUE]
    /\ gestureStatus = "Detected: ..."

\* C14: OPEN_RATIO is above CLOSED_RATIO, and a frame whose ratio is strictly
\* between 1.1 and 1.5 calls no onModeChange and leaves openFrames and
\* closedFrames at 0, whatever they were.
C14_DeadZoneResetsBoth ==
    /\ OPEN_RATIO_TENTHS > CLOSED_RATIO_TENTHS
    /\ [][FullHandStep /\ ~RatioAtMost11(lastResult'.landmarks[1])
                       /\ ~RatioAtLeast15(lastResult'.landmarks[1]) =>
            /\ ~EmitStep
            /\ lastModeRef' = lastModeRef
            /\ pendingMode' = pendingMode
            /\ openFrames' = 0
            /\ closedFrames' = 0]_vars

\* a dead-zone frame has just ended a run that began with a nonzero counter
C14_Witness ==
    /\ lastResult = [landmarks |-> <<HandAmbiguous>>]
    /\ runLen = 1
    /\ ~runStartZero
    /\ openFrames = 0
    /\ closedFrames = 0
    /\ lastEmit = CHAOS

\* C15: openFrames, closedFrames and noHandFrames are never negative, and
\* openFrames and closedFrames are never both above 0.
C15_CountersNonNegativeExclusive ==
    /\ openFrames >= 0
    /\ closedFrames >= 0
    /\ noHandFrames >= 0
    /\ ~(openFrames > 0 /\ closedFrames > 0)

\* an OPEN frame has zeroed a nonzero closedFrames
C15_Witness ==
    /\ runKind = "OPEN"
    /\ runLen = 1
    /\ ~runStartZero
    /\ openFrames = 1
    /\ closedFrames = 0

\* C16: after a failed setup (model creation rejected, or camera permission
\* denied) the status is the degraded one, no frame was ever processed, no
\* exception escaped, onModeChange was never called, and the mode and the
\* hand position are what App alone made them.
C16_SetupFailureDegrades ==
    setupPc \in {"failed", "denied"} =>
        /\ setupPc = "failed" => gestureStatus = "Gesture control unavailable"
        /\ setupPc = "denied" => gestureStatus = "Permission Denied"
        /\ animationFrame = "idle"
        /\ ~listener
        /\ ~loadedFired
        /\ runKind = "none"
        /\ ~thrown
        /\ lastEmit = "none"
        /\ handPosition = [x |-> 500000, y |-> 500000, detected |-> FALSE]
        /\ ~toggled => mode = FORMED /\ pendingMode = FORMED

\* permission was denied and the mode toggle still works
C16_Witness ==
    /\ setupPc = "denied"
    /\ gestureStatus = "Permission Denied"
    /\ toggled
    /\ mode = CHAOS
    /\ lastModeRef = CHAOS

----------------------------------------------------------------------------
(* The frame callback of Experience *)

\* a useFrame callback ran in this step
TickStep == ticks' # ticks

Abs(n) == IF n < 0 THEN -n ELSE n

\* C17: every frame callback runs exactly one camera branch: the hand-driven
\* one if and only if a hand position is detected and the mode is CHAOS, the
\* autonomous one otherwise.
C17_ExactlyOneBranch ==
    [][TickStep =>
         /\ Cardinality(branches') = 1
         /\ "hand" \in branches' <=> (handPosition.detected /\ mode = CHAOS)
         /\ "auto" \in branches' <=> (~handPosition.detected \/ mode = FORMED)]_vars

\* a hand-driven callback right after an autonomous one or a new hand position
C17_Witness ==
    /\ ticks = 2
    /\ branches = {"hand"}
    /\ heldTicks = 1
    /\ mode = CHAOS
    /\ handPosition.detected

\* C18 as stated: a callback taking the autonomous branch puts the smoothed
\* point back at the centre (0.5, 0.5).
C18_AutonomousTickReseeds ==
    [][TickStep /\ "auto" \in branches' =>
         smoothHandRef' = [x |-> 500000, y |-> 500000]]_vars

\* C18: a callback taking the autonomous branch leaves the smoothed point
\* where the last hand-driven callback put it.
C18_AutonomousTickKeepsSmoothed ==
    [][TickStep /\ "auto" \in branches' => smoothHandRef' = smoothHandRef]_vars

\* one hand-driven callback from the centre towards (0.9, 0.5), then an
\* autonomous one after the hand was lost: the point is still at 0.572
C18_Witness ==
    /\ ticks = 2
    /\ branches = {"auto"}
    /\ ~handPosition.detected
    /\ smoothHandRef = [x |-> 572000, y |-> 500000]

\* the wrap of every difference between a target the branch can produce and
\* a current azimuth, on a grid of 5 degrees and of 1/40 of the image width
WrapGridInRange ==
    \A c \in -36..36, k \in 0..40 :
        LET d == WrapAzimuthDiff(targetAzimuth(k * (Unit \div 40)) - c * (PI \div 36))
        IN  d >= -PI /\ d <= PI

C20_SmoothingConvergesGeometrically ==
    [][TickStep /\ "hand" \in branches' =>
         /\ \A c \in {"x", "y"} :
              LET raw == handPosition[c]
                  old == smoothHandRef[c]
                  new == smoothHandRef'[c]
              IN  /\ Min(old, raw) <= new
                  /\ new <= Max(old, raw)
                  /\ Abs(100 * (raw - new) - 82 * (raw - old)) <= 50
         /\ (/\ heldFrom' = [x |-> 500000, y |-> 500000]
             /\ handPosition = [x |-> 900000, y |-> 500000, detected |-> TRUE]) =>
                /\ heldTicks' = 3 => Abs(smoothHandRef'.x - 679453) <= 2
                /\ heldTicks' = 10 => Abs(smoothHandRef'.x - 845021) <= 5
                /\ heldTicks' >= 50 => /\ Abs(smoothHandRef'.x - 900000) <= 10000
                                        /\ smoothHandRef'.x >= 899975]_vars

\* (0.9, 0.5) has been held for 50 callbacks from the centre
C20_Witness ==
    /\ heldTicks = 50
    /\ heldFrom = [x |-> 500000, y |-> 500000]
    /\ handPosition = [x |-> 900000, y |-> 500000, detected |-> TRUE]
    /\ smoothHandRef.x > 890000
    /\ smoothHandRef.x < 900000

\* the part of a turn the camera went round in this step, in (-PI, PI]
Moved == Normalize(azimuth' - azimuth)

\* b lies between a and c
Between(a, b, c) == (a <= b /\ b <= c) \/ (c <= b /\ b <= a)

\* C21: whatever the frame time, a hand-driven callback leaves the azimuth
\* and the polar angle between their old values and their targets.
C21_HandTickNeverOvershoots ==
    [][TickStep /\ "hand" \in branches' =>
         /\ Between(0, Moved, azimuthDiff')
         /\ Between(polar, polar', targetPolar(smoothHandRef'.y))]_vars

\* C22: for every smoothed y, inside the image or not, the polar target of a
\* hand-driven callback lies in [PI / 4, PI / 1.8] = [45, 100] degrees.
C22_TargetPolarInBand ==
    [][/\ \A k \in -40..80 :
            /\ targetPolar(k * (Unit \div 40)) >= 45000
            /\ targetPolar(k * (Unit \div 40)) <= 100000
       /\ TickStep /\ "hand" \in branches' =>
            /\ targetPolar(smoothHandRef'.y) >= 45000
            /\ targetPolar(smoothHandRef'.y) <= 100000
            /\ polar' >= 45000
            /\ polar' <= 100000]_vars

\* a hand held above the image has drawn the smoothed y past 1, the target is
\* the upper limit and the camera is within a degree of it
C22_Witness ==
    /\ branches = {"hand"}
    /\ smoothHandRef.y > Unit
    /\ handPosition.y = 1200000
    /\ targetPolar(smoothHandRef.y) = 100000
    /\ polar > 99000
    /\ polar <= 100000

\* C23: an autonomous callback turns the camera by rate * delta, the rate
\* being 0.35 rad/s in CHAOS and 0.15 rad/s in FORMED, moves the polar angle
\* by delta * 1.5 of the way to the midpoint of the band (72.5 degrees), and
\* its result does not involve the smoothed point, which it leaves alone.
C23_AutonomousRates ==
    [][/\ autoSpeed(CHAOS) > autoSpeed(FORMED)
       /\ TickStep /\ "auto" \in branches' =>
            \E delta \in Deltas :
                /\ Moved = (IF mode = CHAOS THEN 20054 * delta + 500
                            ELSE 8594 * delta + 500) \div 1000
                /\ polar' = ((2000 - 3 * delta) * polar + 3 * delta * 72500 + 1000)
                              \div 2000
                /\ Between(polar, polar', 72500)
                /\ smoothHandRef' = smoothHandRef]_vars

\* two autonomous callbacks of 200 ms in CHAOS from azimuth 0 with the hand
\* at rest: 2 * 0.35 rad/s * 0.2 s
C23_Witness ==
    /\ ticks = 2
    /\ branches = {"auto"}
    /\ mode = CHAOS
    /\ ~handPosition.detected
    /\ azimuth = 8022
    /\ rotationY > 0

----------------------------------------------------------------------------
(* The cards *)

\* a frame drove the cards in this step
CardStep == cardTicks' # cardTicks

\* C24: on every frame each card moves towards its FORMED position iff the
\* mode is FORMED and towards its CHAOS position otherwise, its scale stays
\* 1, and position and scale are those of the same card driven with the hand
\* at rest, whatever hand position the frame saw.
C24_CardsIgnoreHand ==
    [][CardStep =>
         /\ \A k \in CardKinds, i \in 1..3 :
              Between(cards[k].position[i], cards'[k].position[i],
                      IF mode = FORMED THEN CardData(k).targetPos[i]
                      ELSE CardData(k).chaosPos[i])
         /\ \A k \in CardKinds : cards'[k].scale = 1000
         /\ cards' = shadowCards']_vars

\* four frames in CHAOS with a detected hand: the photo card is past its
\* FORMED radius on the way to the CHAOS ring
C24_Witness ==
    /\ cardTicks = 4
    /\ mode = CHAOS
    /\ handPosition.detected
    /\ cards["photo"].position[1] > 480
    /\ cards["text"].position[3] > 422
    /\ cards = shadowCards

----------------------------------------------------------------------------
(* The manifest script *)

\* the script ran in this step
RunStep == runTick' # runTick

\* the name ends in .jpg, .jpeg, .png, .gif or .webp, in any case
HasImageExtension(f) ==
    \E e \in {<<".", "j", "p", "g">>, <<".", "j", "p", "e", "g">>, <<".", "p", "n", "g">>, <<".", "g", "i", "f">>, <<".", "w", "e", "b", "p">>} :
        /\ Len(f) > Len(e)
        /\ toLowerCase(SubSeq(f, Len(f) - Len(e) + 1, Len(f))) = e

Listed(list) == {list[i] : i \in 1..Len(list)}

\* the manifest is in ascending order and lists only /photos/<image file>
WellFormedManifest(list) ==
    /\ \A i \in 1..(Len(list) - 1) : Before(list[i], list[i + 1])
    /\ \A i \in 1..Len(list) :
         \E f \in PhotoNames : HasImageExtension(f) /\ list[i] = PhotoPath(f)

C26_RemovedPhotosDropOut ==
    [][RunStep /\ copyFailed' = {} =>
         \A f \in PhotoNames :
             PhotoPath(f) \in Listed(manifestFile')
                 <=> (f \in photosDir /\ HasImageExtension(f))]_vars

----------------------------------------------------------------------------
(* Photo uploads *)

\* every reader of the upload has finished, with a load or with an error
ReadsFinished(batch) == \A i \in 1..Len(batch.reads) : batch.reads[i] # "reading"

\* C27: once the reads of an upload have finished, whatever their outcomes,
\* the upload has been appended to the photo list (one URL per selected image
\* file, in selection order, after the photos that were there).
C27_FinishedUploadIsAppended ==
    \A b \in 1..Len(batches) :
        ReadsFinished(batches[b]) =>
            /\ batches[b].delivered
            /\ \E k \in 0..Len(uploadedPhotos) :
                 LET urls == UrlsOf(ImagesOf(batches[b].files))
                 IN  /\ k + Len(urls) <= Len(uploadedPhotos)
                     /\ SubSeq(uploadedPhotos, k + 1, k + Len(urls)) = urls

\* the promise chain of the manifest fetch settles in this step
FetchStep == fetchPc = "pending" /\ fetchPc' = "settled"

\* C30: when the fetch settles, the manifest's photos become the photo list
\* only if the response is usable and the list is empty at that moment;
\* otherwise the list stays as it is, and no step ever drops or replaces a
\* photo that is in the list.
C30_ManifestOnlyFillsEmptyList ==
    [][/\ FetchStep =>
            uploadedPhotos' = IF fetched'.kind = "ok" /\ uploadedPhotos = <<>>
                              THEN fetched'.photos
                              ELSE uploadedPhotos
       /\ Len(uploadedPhotos') >= Len(uploadedPhotos)
       /\ SubSeq(uploadedPhotos', 1, Len(uploadedPhotos)) = uploadedPhotos]_vars

\* the user's upload landed first, then a manifest with photos arrived: the
\* list still begins with the uploaded photo and holds no manifest entry
C30_Witness ==
    /\ fetchPc = "settled"
    /\ fetched.kind = "ok"
    /\ fetched.photos # <<>>
    /\ uploadedPhotos # <<>>
    /\ \A i \in 1..Len(uploadedPhotos) : uploadedPhotos[i][1] = "data"

----------------------------------------------------------------------------
(* The classifier's mode and the application's mode *)

----------------------------------------------------------------------------
(* The voice recorder *)

\* C29: for every sequence of clicks, a recorder that is recording is the one
\* the button controls (isRecording is true and the ref holds it), so at most
\* one recorder is active and a later click stops it.
C29_OnlyTheCurrentRecorderRecords ==
    /\ \A r \in 1..Len(recorders) :
         recorders[r].state = "recording" => isRecording /\ mediaRecorderRef = r
    /\ Cardinality({r \in 1..Len(recorders) : recorders[r].state = "recording"}) <= 1
====
